---- MODULE Spec2Model ----
(***************************************************************************)
(* A model of the SOLPILL landing page (src/src/PillCoinLanding.jsx and    *)
(* its stripped variant src/unnamed/part_000):                              *)
(*   - the Feed Poller of MainPage (connection effect, poll effect, the    *)
(*     async poll() loop, Simulate Feed, the scale effect),                 *)
(*   - the two Growth Simulators (5s/15s and 2s/8s setInterval pairs),      *)
(*   - the pure helpers lamportsToSol and computeScale.                     *)
(* Floating-point values are kept as fixed-point integers (ScaleUnit parts  *)
(* of 1) or as exact fractions <<numerator, denominator>>. The model is of  *)
(* one mount of the page, from its first render to its teardown.            *)
(***************************************************************************)
EXTENDS Integers, Sequences, FiniteSets, TLC

\* ---------------------------------------------------------------- bounds
\* The longest ledger of the watched address the model explores.
MaxLedger == 2
\* The number of Simulate Feed clicks the model explores.
MaxSimClicks == 1
\* Fixed-point resolution of a scale value: 1.0 is ScaleUnit.
ScaleUnit == 10000

\* ------------------------------------------------------- program constants
LAMPORTS_PER_SOL == 1000000000
\* limit: 20 of the getSignaturesForAddress call
SIG_LIMIT == 20
\* the delay of setTimeout(poll, 5000)
POLL_DELAY_MS == 5000

Null == "null"
PLACEHOLDER == "REPLACE_WITH_TARGET_ADDRESS"

\* ------------------------------------------------------------ pure helpers
Min(a, b) == IF a <= b THEN a ELSE b
Max(a, b) == IF a >= b THEN a ELSE b

Reverse(s) == [k \in 1..Len(s) |-> s[Len(s) - k + 1]]

\* An exact fraction n/d (d > 0) compared with another: a >= b.
FracGE(a, b) == a[1] * b[2] >= b[1] * a[2]

\* const lamportsToSol = (lamports) => lamports / LAMPORTS_PER_SOL
lamportsToSol(lamports) == <<lamports, LAMPORTS_PER_SOL>>

RECURSIVE Log2Floor(_)
Log2Floor(n) == IF n < 2 THEN 0 ELSE 1 + Log2Floor(n \div 2)

RECURSIVE Pow2(_)
Pow2(k) == IF k = 0 THEN 1 ELSE 2 * Pow2(k - 1)

\* Math.log of an integer n >= 1 in fixed point: n = 2^k * m with 1 <= m < 2,
\* ln n = k ln 2 + 2 atanh((m-1)/(m+1)), the series cut after z^9.
\* Math.log(0) is -Infinity, kept as a value below every scale.
MathLog(n) ==
  IF n <= 0 THEN -1000 * ScaleUnit
  ELSE
    LET k  == Log2Floor(n)
        m  == (n * ScaleUnit) \div Pow2(k)
        z  == ((m - ScaleUnit) * ScaleUnit) \div (m + ScaleUnit)
        z2 == (z * z) \div ScaleUnit
        t3 == (z * z2) \div ScaleUnit
        t5 == (t3 * z2) \div ScaleUnit
        t7 == (t5 * z2) \div ScaleUnit
        t9 == (t7 * z2) \div ScaleUnit
        ln2 == (6931 * ScaleUnit) \div 10000
    IN  k * ln2 + 2 * (z + t3 \div 3 + t5 \div 5 + t7 \div 7 + t9 \div 9)

\* const computeScale = (feeds) => 1 + Math.log(1 + Math.max(0, feeds)) * 0.6
computeScale_MinForMax(f) == ScaleUnit + (MathLog(1 + Min(0, f)) * 6) \div 10
computeScale(f) == ScaleUnit + (MathLog(1 + Max(0, f)) * 6) \div 10

\* ------------------------------------------------------------------ state
VARIABLES
  targetAddress,  \* TARGET_ADDRESS, read once from the environment
  feedThreshold,  \* FEED_THRESHOLD as a fraction <<n, d>> of a SOL
  connection,     \* MainPage state: Null or "conn"
  connError,      \* MainPage state: Null or the constructor's message
  booted,         \* the connection effect (deps []) has run
  isMounted,      \* the view is mounted (the poll closure's isMounted)
  pc,             \* where the poller is: off, listing, fetching, timer, stopped
  cursor,         \* the closure's cursor: 0 for null, else a signature
  reqBefore,      \* the `before` of the getSignaturesForAddress in flight (0: none)
  sigs,           \* the round's sigs, after sigs.reverse()
  i,              \* the loop's position in sigs: the getTransaction in flight or last made
  timerDelay,     \* delay of the pending setTimeout(poll, ..), 0 when none
  ledger,         \* the chain's transactions of the address, oldest first
  feeds,          \* MainPage state
  lastFeedAt,     \* MainPage state: Null or a timestamp
  scale,          \* MainPage state, fixed point
  simClicks,      \* history: Simulate Feed clicks so far
  feedLog,        \* history: the signatures the poller counted, in order
  maxBefore,      \* history: the newest signature ever sent as `before` (0: none)
  logAtStart,     \* history: Len(feedLog) when the current round started
  crashed,        \* an exception left an effect uncaught (React tears the tree down)
  lastRpc,        \* history: how the last remote call ended: none, ok, threw
  rounds,         \* history: invocations of poll() that have not reached their end
  timers,         \* history: setTimeout(poll, 5000) timers set and not yet fired
  \* the Growth Simulator (PillCoinLanding of the 5s/15s and 2s/8s variants)
  variant,        \* which simulator runs: "5s15s" or "2s8s"
  simScale,       \* the simulator's scale, fixed point
  lastEvent,      \* '', 'grow' or 'shrink'
  grow,           \* the grow interval is set (not cleared)
  shrink,         \* the shrink interval is set (not cleared)
  growIn,         \* ms until the grow interval is due
  shrinkIn,       \* ms until the shrink interval is due
  \* computeScale applied to two feed counts
  argA, argB,     \* the feed counts
  outA, outB,     \* computeScale of each, -1 before the call
  \* randomSolAmount applied to two Math.random() draws
  rnd1, rnd2,     \* the draws, in RandomGrid-ths: Math.random() = rnd / RandomGrid
  fed,            \* the value returned, NotCalled before the call
  \* the FEED_THRESHOLD initialiser applied to the environment
  envVite,        \* ENV.VITE_FEED_THRESHOLD, a sequence of characters
  envCra,         \* ENV.REACT_APP_FEED_THRESHOLD, a sequence of characters
  envRead         \* the initialiser has run (feedThreshold holds its value)

pollerVars == <<targetAddress, feedThreshold, connection, connError, booted,
                isMounted, pc, cursor, reqBefore, sigs, i, timerDelay, ledger,
                feeds, lastFeedAt, scale, simClicks, feedLog, maxBefore, logAtStart,
                crashed, lastRpc, rounds, timers>>

simVars == <<variant, simScale, lastEvent, grow, shrink, growIn, shrinkIn>>

randVars == <<rnd1, rnd2, fed>>

envVars == <<envVite, envCra, envRead>>

fnVars == <<argA, argB, outA, outB, randVars, envVars>>

vars == <<pollerVars, simVars, fnVars>>

\* ------------------------------------------------------- the remote ledger
\* Balance deltas (postBalances[idx] - preBalances[idx]) of the explored
\* transfers, in lamports.
Deltas == {-500000000, 400000000, 500000000, 1000000000}

\* What getTransaction returns for a signature: no transaction or no meta,
\* a message whose accountKeys do not hold the target, or a transfer.
NoMeta == [meta |-> FALSE, idx |-> -1, diff |-> 0]
NoKey  == [meta |-> TRUE, idx |-> -1, diff |-> 0]
Transfer(d) == [meta |-> TRUE, idx |-> 0, diff |-> d]
TxKinds == {NoMeta, NoKey} \cup {Transfer(d) : d \in Deltas}

\* FEED_THRESHOLD values explored: the default 0.5 and 1 SOL.
Thresholds == {<<1, 2>>, <<1, 1>>}

\* getSignaturesForAddress(address, {before, limit}): the signatures of the
\* address newest first, starting just before (older than) `before`, at most
\* `limit` of them. A signature is its position in the ledger.
GetSignaturesForAddress(before, limit) ==
  LET upper == IF before = 0 THEN Len(ledger) ELSE before - 1
      n     == Min(limit, upper)
  IN  [k \in 1..n |-> upper - k + 1]

\* ------------------------------------------------------------ environment
\* ENV.VITE_TARGET_ADDRESS and ENV.REACT_APP_TARGET_ADDRESS: "" stands for a
\* missing or empty (falsy) value.
EnvAddrs == {"", "addr"}

\* TARGET_ADDRESS = ENV.VITE_.. || ENV.REACT_APP_.. || 'REPLACE_WITH_TARGET_ADDRESS'
TARGET_ADDRESS(vite, cra) ==
  IF vite # "" THEN vite ELSE IF cra # "" THEN cra ELSE PLACEHOLDER

\* --------------------------------------------------- pieces of MainPage
\* try { setConnection(new Connection(RPC_URL, 'confirmed')) }
\* catch (e) { setConnError(String(e?.message || e)) }
ConnectionOutcome(ctorThrows) ==
  IF ctorThrows THEN [connection |-> Null, connError |-> "ctor failed", crashed |-> FALSE]
  ELSE [connection |-> "conn", connError |-> Null, crashed |-> FALSE]

\* if (!connection) return;
\* if (!TARGET_ADDRESS || TARGET_ADDRESS === 'REPLACE_WITH_TARGET_ADDRESS') return;
PollGuard_NoPlaceholderCheck(conn, addr) == conn # Null /\ addr # ""
PollGuard(conn, addr) == conn # Null /\ addr # "" /\ addr # PLACEHOLDER

\* cursor ? { before: cursor, limit: 20 } : { limit: 20 }
ListingBefore(c) == c

\* cursor = sigs[0].signature, taken before sigs.reverse()
NextCursor_AfterReverse(resp) == resp[Len(resp)]
NextCursor(resp) == resp[1]

\* const diffSol = lamportsToSol(diffLamports); if (diffSol >= FEED_THRESHOLD)
MeetsThreshold_Strict(diffLamports, threshold) ==
  ~FracGE(threshold, lamportsToSol(diffLamports))
MeetsThreshold(diffLamports, threshold) ==
  FracGE(lamportsToSol(diffLamports), threshold)

\* if (!meta || !message) continue; ... if (idx === -1) continue;
\* const diffLamports = meta.postBalances[idx] - meta.preBalances[idx]; ...
IsFeed(tx, threshold) ==
  /\ tx.meta
  /\ tx.idx # -1
  /\ MeetsThreshold(tx.diff, threshold)

\* The end of poll(): if (isMounted) setTimeout(poll, 5000);
AfterRound(mounted) ==
  IF mounted THEN [pc |-> "timer", timerDelay |-> POLL_DELAY_MS]
  ELSE [pc |-> "stopped", timerDelay |-> 0]

\* catch (e) { if (IS_DEV) console.warn(..) }: a throwing await leaves the
\* loop and the try block; control falls through to the end of poll().
\* k is the index of the failed getTransaction (0: the listing), n = sigs.length.
OnThrow_Propagates(k, n, mounted) == [pc |-> "stopped", i |-> k, timerDelay |-> 0]
OnThrow_ContinuesLoop(k, n, mounted) ==
  IF k > 0 /\ k < n THEN [pc |-> "fetching", i |-> k + 1, timerDelay |-> 0]
  ELSE [pc |-> AfterRound(mounted).pc, i |-> k,
        timerDelay |-> AfterRound(mounted).timerDelay]
OnThrow(k, n, mounted) ==
  [pc |-> AfterRound(mounted).pc, i |-> k,
   timerDelay |-> AfterRound(mounted).timerDelay]

\* setFeeds((prev) => prev + 1): the updater gets the current count, not the
\* count a closure captured at its creation (0).
IncFeeds_StaleClosure(prev) == 0 + 1
IncFeeds(prev) == prev + 1

\* for (const s of sigs.reverse()): the batch in the order it is processed.
ProcessingOrder_AsListed(resp) == resp
ProcessingOrder(resp) == Reverse(resp)

\* setTimeout is one-shot: a timer that fires is no longer pending.
PendingAfterFire_Interval(n) == n
PendingAfterFire(n) == n - 1

\* The timers pending after the end of poll(): one more when it set one.
PendingAfterRound(n, c) == IF c.timerDelay > 0 THEN n + 1 ELSE n

\* ------------------------------------------------------- Growth Simulator
Variants == {"5s15s", "2s8s"}

\* const BASE_SCALE = 1 | 0.6
BASE_SCALE(v) == IF v = "5s15s" THEN ScaleUnit ELSE (6 * ScaleUnit) \div 10
\* const MAX_SCALE = 6 | 4
MAX_SCALE(v) == IF v = "5s15s" THEN 6 * ScaleUnit ELSE 4 * ScaleUnit
\* const GROW_FACTOR = 1.06 | 1.08, in hundredths
GROW_FACTOR(v) == IF v = "5s15s" THEN 106 ELSE 108
\* const SHRINK_FACTOR = 0.96 | 0.97, in hundredths
SHRINK_FACTOR(v) == IF v = "5s15s" THEN 96 ELSE 97

\* The periods of the two setInterval calls: 5000 / 15000 ms, and
\* GROW_INTERVAL_MS = 2000 / SHRINK_INTERVAL_MS = 8000.
Intervals_Swapped(v) ==
  IF v = "5s15s" THEN [grow |-> 15000, shrink |-> 5000]
  ELSE [grow |-> 8000, shrink |-> 2000]
Intervals(v) ==
  IF v = "5s15s" THEN [grow |-> 5000, shrink |-> 15000]
  ELSE [grow |-> 2000, shrink |-> 8000]

\* s * f for a factor f in hundredths, rounded to the nearest fixed-point value.
TimesFactor(s, f) == (s * f + 50) \div 100

\* setScale((s) => Math.min(s * GROW_FACTOR, MAX_SCALE))
GrowStep(v, s) == Min(TimesFactor(s, GROW_FACTOR(v)), MAX_SCALE(v))

\* setScale((s) => Math.max(BASE_SCALE, s * SHRINK_FACTOR))
ShrinkStep_FloorZero(v, s) == Max(0, TimesFactor(s, SHRINK_FACTOR(v)))
ShrinkStep(v, s) == Max(BASE_SCALE(v), TimesFactor(s, SHRINK_FACTOR(v)))

\* ------------------------------------------------------ randomSolAmount
\* The draws explored: Math.random() is one of 0/RandomGrid .. (RandomGrid-1)/RandomGrid.
RandomGrid == 12

\* A double: NaN, an infinity, an exact zero, or a finite non-zero value whose
\* magnitude is kept in fixed point (mag may round to 0 for a value below the
\* resolution; its sign is kept).
NaN == [kind |-> "nan", sgn |-> 1, mag |-> 0]
Infinity(sg) == [kind |-> "inf", sgn |-> sg, mag |-> 0]
Zero == [kind |-> "zero", sgn |-> 1, mag |-> 0]
Finite(x) == [kind |-> "fin", sgn |-> IF x < 0 THEN -1 ELSE 1,
              mag |-> IF x < 0 THEN -x ELSE x]
NotCalled == [kind |-> "none", sgn |-> 1, mag |-> 0]

\* The value of a double that is not NaN, for comparisons.
Signed(a) == a.sgn * a.mag

\* a * b on doubles: Infinity * 0 is NaN.
FloatTimes(a, b) ==
  IF a.kind = "nan" \/ b.kind = "nan" THEN NaN
  ELSE IF a.kind = "inf" \/ b.kind = "inf"
       THEN IF a.kind = "zero" \/ b.kind = "zero" THEN NaN
            ELSE Infinity(a.sgn * b.sgn)
  ELSE IF a.kind = "zero" \/ b.kind = "zero" THEN Zero
  ELSE [kind |-> "fin", sgn |-> a.sgn * b.sgn, mag |-> (a.mag * b.mag) \div ScaleUnit]

\* c + a for a finite constant c (fixed point).
FloatPlus(c, a) ==
  IF a.kind \in {"nan", "inf"} THEN a ELSE Finite(c + Signed(a))

\* a < b on doubles that are not NaN.
FloatLess(a, b) ==
  IF a.kind = "inf" THEN a.sgn = -1 /\ ~(b.kind = "inf" /\ b.sgn = -1)
  ELSE IF b.kind = "inf" THEN b.sgn = 1
  ELSE Signed(a) < Signed(b)

\* Math.max(a, b) and Math.min(a, b): NaN when either argument is NaN.
MathMax(a, b) ==
  IF a.kind = "nan" \/ b.kind = "nan" THEN NaN
  ELSE IF FloatLess(a, b) THEN b ELSE a
MathMin(a, b) ==
  IF a.kind = "nan" \/ b.kind = "nan" THEN NaN
  ELSE IF FloatLess(b, a) THEN b ELSE a

\* Math.log(k / n) of a draw k/n in [0, 1): -Infinity at 0.
MathLogOfDraw(k, n) ==
  IF k = 0 THEN Infinity(-1) ELSE Finite(MathLog(k) - MathLog(n))

\* The integer square root, by Newton's iteration from above.
RECURSIVE SqrtIter(_, _)
SqrtIter(y, r) ==
  LET nxt == (r + y \div r) \div 2
  IN  IF nxt >= r THEN r ELSE SqrtIter(y, nxt)

\* Math.sqrt: NaN below zero, Infinity at Infinity.
MathSqrt(a) ==
  IF a.kind = "nan" THEN NaN
  ELSE IF a.kind = "zero" THEN Zero
  ELSE IF a.sgn = -1 THEN NaN
  ELSE IF a.kind = "inf" THEN a
  ELSE IF a.mag = 0 THEN Finite(0)
  ELSE Finite(SqrtIter(a.mag * ScaleUnit, a.mag * ScaleUnit))

\* pi and ln 2 in fixed point.
PiFixed == (31416 * ScaleUnit) \div 10000
Ln2Fixed == (6931 * ScaleUnit) \div 10000

\* sin y and cos y for 0 <= y <= pi/4 (fixed point), by their Taylor series.
SinSeries(y) ==
  LET y2 == (y * y) \div ScaleUnit
      t3 == (y * y2) \div ScaleUnit
      t5 == (t3 * y2) \div ScaleUnit
      t7 == (t5 * y2) \div ScaleUnit
  IN  y - t3 \div 6 + t5 \div 120 - t7 \div 5040
CosSeries(y) ==
  LET y2 == (y * y) \div ScaleUnit
      t4 == (y2 * y2) \div ScaleUnit
      t6 == (t4 * y2) \div ScaleUnit
  IN  ScaleUnit - y2 \div 2 + t4 \div 24 - t6 \div 720

\* cos x for 0 <= x <= pi/2.
CosFirstQuadrant(x) ==
  IF 4 * x <= PiFixed THEN CosSeries(x) ELSE SinSeries(PiFixed \div 2 - x)

\* Math.cos(2 * Math.PI * (k / n)) of a draw k/n in [0, 1). The argument is a
\* double and never an exact odd multiple of pi/2, so the result is never an
\* exact zero: Math.cos(2 * Math.PI * 0.25) is 6.1e-17 and
\* Math.cos(2 * Math.PI * 0.75) is -1.8e-16. The sign is the quadrant's.
MathCosOfTurn(k, n) ==
  LET x    == (2 * PiFixed * k) \div n
      fold == IF 2 * k > n THEN 2 * PiFixed - x ELSE x
      neg  == 4 * k > n /\ 4 * k <= 3 * n
      m    == IF 2 * fold > PiFixed THEN CosFirstQuadrant(PiFixed - fold)
              ELSE CosFirstQuadrant(fold)
  IN  [kind |-> "fin", sgn |-> IF neg THEN -1 ELSE 1, mag |-> Max(0, m)]

\* e^x for a fixed-point x: x = q ln 2 + r with 0 <= r < ln 2.
ExpFixed(x) ==
  LET q  == x \div Ln2Fixed
      r  == x - q * Ln2Fixed
      r2 == (r * r) \div ScaleUnit
      r3 == (r2 * r) \div ScaleUnit
      r4 == (r3 * r) \div ScaleUnit
      r5 == (r4 * r) \div ScaleUnit
      e  == ScaleUnit + r + r2 \div 2 + r3 \div 6 + r4 \div 24 + r5 \div 120
  IN  IF q >= 0 THEN e * Pow2(q) ELSE e \div Pow2(-q)

\* Math.exp: Infinity at Infinity, an exact 0 at -Infinity.
MathExp(a) ==
  IF a.kind = "nan" THEN NaN
  ELSE IF a.kind = "inf" THEN (IF a.sgn = 1 THEN a ELSE Zero)
  ELSE Finite(ExpFixed(Signed(a)))

\* The clamp's limits 0.05 and 2.5, and sigma = 0.8.
MIN_SOL == Finite((5 * ScaleUnit) \div 100)
MAX_SOL == Finite((25 * ScaleUnit) \div 10)
Sigma == Finite((8 * ScaleUnit) \div 10)

\* return Math.min(2.5, Math.max(0.05, val))
Clamp_NoFloor(val) == MathMin(MAX_SOL, val)
Clamp(val) == MathMin(MAX_SOL, MathMax(MIN_SOL, val))

\* function randomSolAmount(), on the draws k1/n and k2/n:
\*   mu = Math.log(0.25); sigma = 0.8;
\*   n = Math.sqrt(-2 * Math.log(Math.random())) * Math.cos(2 * Math.PI * Math.random());
\*   val = Math.exp(mu + sigma * n);
BoxMuller(k1, k2, n) ==
  FloatTimes(MathSqrt(FloatTimes(Finite(-2 * ScaleUnit), MathLogOfDraw(k1, n))),
             MathCosOfTurn(k2, n))
randomSolAmount(k1, k2, n) ==
  LET mu  == MathLog(1) - MathLog(4)
      val == MathExp(FloatPlus(mu, FloatTimes(Sigma, BoxMuller(k1, k2, n))))
  IN  Clamp(val)

\* ------------------------------------------------------- FEED_THRESHOLD
\* A string is a sequence of one-character strings.
DigitChars == <<"0", "1", "2", "3", "4", "5", "6", "7", "8", "9">>
IsDigit(c) == \E k \in DOMAIN DigitChars : DigitChars[k] = c
DigitValue(c) == (CHOOSE k \in DOMAIN DigitChars : DigitChars[k] = c) - 1
InfinityChars == <<"I", "n", "f", "i", "n", "i", "t", "y">>

RECURSIVE TrimLeft(_)
TrimLeft(s) == IF s # <<>> /\ Head(s) = " " THEN TrimLeft(Tail(s)) ELSE s
Trim(s) == Reverse(TrimLeft(Reverse(TrimLeft(s))))

RECURSIVE Pow10(_)
Pow10(k) == IF k = 0 THEN 1 ELSE 10 * Pow10(k - 1)

RECURSIVE Gcd(_, _)
Gcd(a, b) == IF b = 0 THEN a ELSE Gcd(b, a % b)

\* The digits of s read as a decimal integer, its "." passed over.
RECURSIVE DigitsValue(_, _)
DigitsValue(s, acc) ==
  IF s = <<>> THEN acc
  ELSE IF Head(s) = "." THEN DigitsValue(Tail(s), acc)
  ELSE DigitsValue(Tail(s), 10 * acc + DigitValue(Head(s)))

\* Number(raw) for the strings without exponent or radix prefix: white space
\* is trimmed, the empty string is 0, [+-]Infinity is an infinity, an
\* optionally signed decimal literal (digits, at most one ".", at least one
\* digit) is its value n/d, anything else is NaN.
StringToNumber(raw) ==
  LET t      == Trim(raw)
      signed == t # <<>> /\ Head(t) \in {"+", "-"}
      sg     == IF signed /\ Head(t) = "-" THEN -1 ELSE 1
      body   == IF signed THEN Tail(t) ELSE t
      dots   == {k \in DOMAIN body : body[k] = "."}
      nDigit == Cardinality({k \in DOMAIN body : IsDigit(body[k])})
      after  == IF dots = {} THEN 0 ELSE Len(body) - (CHOOSE k \in dots : TRUE)
  IN  IF t = <<>> THEN [kind |-> "num", n |-> 0, d |-> 1]
      ELSE IF body = InfinityChars THEN [kind |-> "inf", n |-> sg, d |-> 1]
      ELSE IF /\ \A k \in DOMAIN body : IsDigit(body[k]) \/ body[k] = "."
              /\ Cardinality(dots) <= 1
              /\ nDigit >= 1
           THEN [kind |-> "num", n |-> sg * DigitsValue(body, 0), d |-> Pow10(after)]
      ELSE [kind |-> "nan", n |-> 0, d |-> 1]

\* Number.isFinite(n)
NumberIsFinite(n) == n.kind = "num"

\* The fraction n/d in lowest terms.
Lowest(n, d) == <<n \div Gcd(n, d), d \div Gcd(n, d)>>

\* const FEED_THRESHOLD = (() => {
\*   const raw = ENV.VITE_FEED_THRESHOLD || ENV.REACT_APP_FEED_THRESHOLD || '0.5';
\*   const n = Number(raw);
\*   return Number.isFinite(n) && n > 0 ? n : 0.5; })();
\* A missing variable is the empty string (both are falsy).
RawThreshold(vite, cra) ==
  IF vite # <<>> THEN vite ELSE IF cra # <<>> THEN cra ELSE <<"0", ".", "5">>
FEED_THRESHOLD_NoPositiveCheck(vite, cra) ==
  LET n == StringToNumber(RawThreshold(vite, cra))
  IN  IF NumberIsFinite(n) THEN Lowest(n.n, n.d) ELSE <<1, 2>>
FEED_THRESHOLD(vite, cra) ==
  LET n == StringToNumber(RawThreshold(vite, cra))
  IN  IF NumberIsFinite(n) /\ n.n > 0 THEN Lowest(n.n, n.d) ELSE <<1, 2>>

\* The values of the two environment variables explored: missing or empty,
\* white space, non-numeric, zero, negative, infinite, trailing garbage, and
\* valid positive decimals.
EnvRaws ==
  { <<>>, <<" ">>, <<"a", "b", "c">>, <<"0">>, <<"-", "1">>, InfinityChars,
    <<"1", ".", "5", "x">>, <<"0", ".", "5">>, <<"1">>, <<"0", ".", "2", "5">>,
    <<" ", "2", " ">>, <<".", "7", "5">> }

\* ------------------------------------------------------------------ Init
\* MainPage after construction, nothing of the simulators running.
SimIdle ==
  /\ variant = "5s15s"
  /\ simScale = BASE_SCALE("5s15s")
  /\ lastEvent = ""
  /\ grow = FALSE
  /\ shrink = FALSE
  /\ growIn = 0
  /\ shrinkIn = 0

RandIdle ==
  /\ rnd1 = 0 /\ rnd2 = 0
  /\ fed = NotCalled

EnvIdle ==
  /\ envVite = <<>> /\ envCra = <<>>
  /\ envRead = FALSE

FnIdle ==
  /\ argA = 0 /\ argB = 0
  /\ outA = -1 /\ outB = -1
  /\ RandIdle
  /\ EnvIdle

PollerIdle ==
  /\ targetAddress = PLACEHOLDER
  /\ feedThreshold = <<1, 2>>
  /\ connection = Null
  /\ connError = Null
  /\ booted = FALSE
  /\ crashed = FALSE
  /\ isMounted = FALSE
  /\ pc = "off"
  /\ cursor = 0
  /\ reqBefore = 0
  /\ sigs = <<>>
  /\ i = 0
  /\ timerDelay = 0
  /\ ledger = <<>>
  /\ feeds = 0
  /\ lastFeedAt = Null
  /\ scale = ScaleUnit
  /\ simClicks = 0
  /\ feedLog = <<>>
  /\ logAtStart = 0
  /\ maxBefore = 0
  /\ lastRpc = "none"
  /\ rounds = 0
  /\ timers = 0

Init ==
  /\ SimIdle
  /\ FnIdle
  /\ targetAddress \in {TARGET_ADDRESS(v, c) : v \in EnvAddrs, c \in EnvAddrs}
  /\ feedThreshold \in Thresholds
  /\ connection = Null
  /\ connError = Null
  /\ booted = FALSE
  /\ crashed = FALSE
  /\ isMounted = TRUE
  /\ pc = "off"
  /\ cursor = 0
  /\ reqBefore = 0
  /\ sigs = <<>>
  /\ i = 0
  /\ timerDelay = 0
  /\ ledger = <<>>
  /\ feeds = 0
  /\ lastFeedAt = Null
  /\ scale = ScaleUnit
  /\ simClicks = 0
  /\ feedLog = <<>>
  /\ logAtStart = 0
  /\ maxBefore = 0
  /\ lastRpc = "none"
  /\ rounds = 0
  /\ timers = 0

\* --------------------------------------------------------------- actions
\* A transaction of the watched address lands on the chain.
AppendTx(tx) ==
  /\ Len(ledger) < MaxLedger
  /\ ledger' = Append(ledger, tx)
  /\ UNCHANGED <<simVars, fnVars>>
  /\ UNCHANGED <<targetAddress, feedThreshold, connection, connError, booted,
                 crashed, isMounted, pc, cursor, reqBefore, sigs, i, timerDelay,
                 feeds, lastFeedAt, scale, simClicks, feedLog, logAtStart,
                 maxBefore, lastRpc, rounds, timers>>

\* The connection effect (deps []), once after mount.
ConnectionEffect(ctorThrows) ==
  /\ isMounted /\ ~booted
  /\ booted' = TRUE
  /\ LET r == ConnectionOutcome(ctorThrows) IN
       /\ connection' = r.connection
       /\ connError' = r.connError
       /\ crashed' = r.crashed
  /\ UNCHANGED <<simVars, fnVars>>
  /\ UNCHANGED <<targetAddress, feedThreshold, isMounted, pc, cursor, reqBefore,
                 sigs, i, timerDelay, ledger, feeds, lastFeedAt, scale,
                 simClicks, feedLog, logAtStart, maxBefore, lastRpc, rounds,
                 timers>>

\* poll() up to its first await: getSignaturesForAddress is sent.
SendListing(c) ==
  /\ pc' = "listing"
  /\ reqBefore' = ListingBefore(c)
  /\ maxBefore' = Max(maxBefore, ListingBefore(c))
  /\ logAtStart' = Len(feedLog)
  /\ timerDelay' = 0
  /\ sigs' = <<>>
  /\ i' = 0
  /\ rounds' = rounds + 1

\* The poll effect (deps [connection]) once the connection is set: the guards,
\* let isMounted = true; let cursor = null; poll();
PollEffect ==
  /\ isMounted /\ booted /\ ~crashed /\ pc = "off"
  /\ PollGuard(connection, targetAddress)
  /\ cursor' = 0
  /\ SendListing(0)
  /\ timers' = timers
  /\ UNCHANGED <<simVars, fnVars>>
  /\ UNCHANGED <<targetAddress, feedThreshold, connection, connError, booted,
                 crashed, isMounted, ledger, feeds, lastFeedAt, scale,
                 simClicks, feedLog, lastRpc>>

\* setTimeout(poll, 5000) fires; the cleanup does not clear it.
TimerFires ==
  /\ pc = "timer"
  /\ SendListing(cursor)
  /\ timers' = PendingAfterFire(timers)
  /\ UNCHANGED <<simVars, fnVars>>
  /\ UNCHANGED <<targetAddress, feedThreshold, connection, connError, booted,
                 crashed, isMounted, cursor, ledger, feeds, lastFeedAt, scale,
                 simClicks, feedLog, lastRpc>>

\* getSignaturesForAddress resolves.
ListingReturns ==
  /\ pc = "listing"
  /\ lastRpc' = "ok"
  /\ LET resp == GetSignaturesForAddress(reqBefore, SIG_LIMIT) IN
       IF Len(resp) > 0
       THEN /\ cursor' = NextCursor(resp)
            /\ sigs' = ProcessingOrder(resp)
            /\ i' = 1
            /\ pc' = "fetching"
            /\ timerDelay' = 0
            /\ UNCHANGED <<rounds, timers>>
       ELSE LET c == AfterRound(isMounted) IN
            /\ cursor' = cursor
            /\ sigs' = <<>>
            /\ i' = 0
            /\ pc' = c.pc
            /\ timerDelay' = c.timerDelay
            /\ rounds' = rounds - 1
            /\ timers' = PendingAfterRound(timers, c)
  /\ UNCHANGED <<simVars, fnVars>>
  /\ UNCHANGED <<targetAddress, feedThreshold, connection, connError, booted,
                 crashed, isMounted, reqBefore, ledger, feeds, lastFeedAt, scale,
                 simClicks, feedLog, logAtStart, maxBefore>>

\* getSignaturesForAddress rejects.
ListingThrows ==
  /\ pc = "listing"
  /\ lastRpc' = "threw"
  /\ LET c == OnThrow(0, 0, isMounted) IN
       /\ i' = c.i
       /\ pc' = c.pc
       /\ timerDelay' = c.timerDelay
       /\ rounds' = (IF c.pc = "fetching" THEN rounds ELSE rounds - 1)
       /\ timers' = PendingAfterRound(timers, c)
  /\ UNCHANGED <<simVars, fnVars>>
  /\ UNCHANGED <<targetAddress, feedThreshold, connection, connError, booted,
                 crashed, isMounted, cursor, reqBefore, sigs, ledger, feeds,
                 lastFeedAt, scale, simClicks, feedLog, logAtStart, maxBefore>>

\* getTransaction(sigs[i]) resolves: the body of the for loop, up to the next
\* await or to the end of poll().
FetchReturns ==
  /\ pc = "fetching"
  /\ lastRpc' = "ok"
  /\ LET tx == ledger[sigs[i]]
         hit == IsFeed(tx, feedThreshold)
     IN
       IF hit /\ ~isMounted
       THEN \* if (!isMounted) return;
            /\ pc' = "stopped"
            /\ i' = i
            /\ timerDelay' = 0
            /\ rounds' = rounds - 1
            /\ timers' = timers
            /\ UNCHANGED <<feeds, lastFeedAt, scale, feedLog>>
       ELSE /\ IF hit
               THEN /\ feeds' = IncFeeds(feeds)
                    /\ lastFeedAt' = "iso"
                    /\ scale' = computeScale(feeds')
                    /\ feedLog' = Append(feedLog, sigs[i])
               ELSE UNCHANGED <<feeds, lastFeedAt, scale, feedLog>>
            /\ IF i < Len(sigs)
               THEN /\ i' = i + 1
                    /\ pc' = "fetching"
                    /\ timerDelay' = 0
                    /\ UNCHANGED <<rounds, timers>>
               ELSE LET c == AfterRound(isMounted) IN
                    /\ i' = i
                    /\ pc' = c.pc
                    /\ timerDelay' = c.timerDelay
                    /\ rounds' = rounds - 1
                    /\ timers' = PendingAfterRound(timers, c)
  /\ UNCHANGED <<simVars, fnVars>>
  /\ UNCHANGED <<targetAddress, feedThreshold, connection, connError, booted,
                 crashed, isMounted, cursor, reqBefore, sigs, ledger, simClicks,
                 logAtStart, maxBefore>>

\* getTransaction(sigs[i]) rejects.
FetchThrows ==
  /\ pc = "fetching"
  /\ lastRpc' = "threw"
  /\ LET c == OnThrow(i, Len(sigs), isMounted) IN
       /\ i' = c.i
       /\ pc' = c.pc
       /\ timerDelay' = c.timerDelay
       /\ rounds' = (IF c.pc = "fetching" THEN rounds ELSE rounds - 1)
       /\ timers' = PendingAfterRound(timers, c)
  /\ UNCHANGED <<simVars, fnVars>>
  /\ UNCHANGED <<targetAddress, feedThreshold, connection, connError, booted,
                 crashed, isMounted, cursor, reqBefore, sigs, ledger, feeds,
                 lastFeedAt, scale, simClicks, feedLog, logAtStart, maxBefore>>

\* The Simulate Feed button: setFeeds((prev) => prev + 1); setLastFeedAt(..)
\* and the scale effect that follows the change of feeds.
SimulateFeed ==
  /\ isMounted /\ ~crashed
  /\ simClicks < MaxSimClicks
  /\ simClicks' = simClicks + 1
  /\ feeds' = IncFeeds(feeds)
  /\ lastFeedAt' = "iso"
  /\ scale' = computeScale(feeds')
  /\ UNCHANGED <<simVars, fnVars>>
  /\ UNCHANGED <<targetAddress, feedThreshold, connection, connError, booted,
                 crashed, isMounted, pc, cursor, reqBefore, sigs, i, timerDelay,
                 ledger, feedLog, logAtStart, maxBefore, lastRpc, rounds,
                 timers>>

\* The view is torn down: the poll effect's cleanup, () => { isMounted = false; }
Unmount ==
  /\ isMounted
  /\ isMounted' = FALSE
  /\ UNCHANGED <<simVars, fnVars>>
  /\ UNCHANGED <<targetAddress, feedThreshold, connection, connError, booted,
                 crashed, pc, cursor, reqBefore, sigs, i, timerDelay, ledger,
                 feeds, lastFeedAt, scale, simClicks, feedLog, logAtStart,
                 maxBefore, lastRpc, rounds, timers>>

Next ==
  \/ \E tx \in TxKinds : AppendTx(tx)
  \/ \E t \in BOOLEAN : ConnectionEffect(t)
  \/ PollEffect
  \/ TimerFires
  \/ ListingReturns
  \/ ListingThrows
  \/ FetchReturns
  \/ FetchThrows
  \/ SimulateFeed
  \/ Unmount

Spec == Init /\ [][Next]_vars

\* ------------------------------------------- the Growth Simulator's steps
\* A simulator page after its first render and its effect: useState(BASE_SCALE),
\* useState(''), and the two intervals set.
SimInit ==
  /\ PollerIdle
  /\ FnIdle
  /\ variant \in Variants
  /\ simScale = BASE_SCALE(variant)
  /\ lastEvent = ""
  /\ grow = TRUE
  /\ shrink = TRUE
  /\ growIn = Intervals(variant).grow
  /\ shrinkIn = Intervals(variant).shrink

\* The grow interval's callback.
GrowTick ==
  /\ grow
  /\ simScale' = GrowStep(variant, simScale)
  /\ lastEvent' = "grow"
  /\ UNCHANGED <<variant, grow, shrink, growIn, shrinkIn>>
  /\ UNCHANGED <<pollerVars, fnVars>>

\* The shrink interval's callback.
ShrinkTick ==
  /\ shrink
  /\ simScale' = ShrinkStep(variant, simScale)
  /\ lastEvent' = "shrink"
  /\ UNCHANGED <<variant, grow, shrink, growIn, shrinkIn>>
  /\ UNCHANGED <<pollerVars, fnVars>>

\* The effect's cleanup: clearInterval(grow); clearInterval(shrink);
SimUnmount ==
  /\ grow \/ shrink
  /\ grow' = FALSE
  /\ shrink' = FALSE
  /\ UNCHANGED <<variant, simScale, lastEvent, growIn, shrinkIn>>
  /\ UNCHANGED <<pollerVars, fnVars>>

\* Grow and shrink ticks in any number and any order.
SimNext ==
  \/ GrowTick
  \/ ShrinkTick
  \/ SimUnmount

SimSpec == SimInit /\ [][SimNext]_vars

\* The same callbacks on their schedule: an interval fires when its period
\* has elapsed and is due again one period later.
TimedGrowTick ==
  /\ grow /\ growIn = 0
  /\ simScale' = GrowStep(variant, simScale)
  /\ lastEvent' = "grow"
  /\ growIn' = Intervals(variant).grow
  /\ UNCHANGED <<variant, grow, shrink, shrinkIn>>
  /\ UNCHANGED <<pollerVars, fnVars>>

TimedShrinkTick ==
  /\ shrink /\ shrinkIn = 0
  /\ simScale' = ShrinkStep(variant, simScale)
  /\ lastEvent' = "shrink"
  /\ shrinkIn' = Intervals(variant).shrink
  /\ UNCHANGED <<variant, grow, shrink, growIn>>
  /\ UNCHANGED <<pollerVars, fnVars>>

\* Time passes up to the next due interval; a due callback runs first.
Advance ==
  /\ grow /\ shrink
  /\ growIn > 0 /\ shrinkIn > 0
  /\ LET d == Min(growIn, shrinkIn) IN
       /\ growIn' = growIn - d
       /\ shrinkIn' = shrinkIn - d
  /\ UNCHANGED <<variant, simScale, lastEvent, grow, shrink>>
  /\ UNCHANGED <<pollerVars, fnVars>>

SchedNext ==
  \/ TimedGrowTick
  \/ TimedShrinkTick
  \/ Advance
  \/ SimUnmount

SchedSpec ==
  /\ SimInit
  /\ [][SchedNext]_vars
  /\ WF_vars(TimedGrowTick)
  /\ WF_vars(TimedShrinkTick)
  /\ WF_vars(Advance)

\* --------------------------------------------------- computeScale applied
\* Every feed count the model applies computeScale to.
MaxFeedArg == 40

FnInit ==
  /\ PollerIdle
  /\ SimIdle
  /\ argA \in 0..MaxFeedArg
  /\ argB \in 0..MaxFeedArg
  /\ outA = -1
  /\ outB = -1
  /\ RandIdle
  /\ EnvIdle

CallComputeScale ==
  /\ outA = -1
  /\ outA' = computeScale(argA)
  /\ outB' = computeScale(argB)
  /\ UNCHANGED <<argA, argB, randVars, envVars>>
  /\ UNCHANGED <<pollerVars, simVars>>

FnNext == CallComputeScale

FnSpec == FnInit /\ [][FnNext]_vars

\* ------------------------------------------------ randomSolAmount applied
RandInit ==
  /\ PollerIdle
  /\ SimIdle
  /\ argA = 0 /\ argB = 0
  /\ outA = -1 /\ outB = -1
  /\ EnvIdle
  /\ rnd1 \in 0..(RandomGrid - 1)
  /\ rnd2 \in 0..(RandomGrid - 1)
  /\ fed = NotCalled

\* const fed = randomSolAmount(), in the grow interval's callback.
CallRandomSolAmount ==
  /\ fed = NotCalled
  /\ fed' = randomSolAmount(rnd1, rnd2, RandomGrid)
  /\ UNCHANGED <<rnd1, rnd2>>
  /\ UNCHANGED <<argA, argB, outA, outB, envVars>>
  /\ UNCHANGED <<pollerVars, simVars>>

RandNext == CallRandomSolAmount

RandSpec == RandInit /\ [][RandNext]_vars

\* ------------------------------------------------- FEED_THRESHOLD applied
EnvInit ==
  /\ PollerIdle
  /\ SimIdle
  /\ argA = 0 /\ argB = 0
  /\ outA = -1 /\ outB = -1
  /\ RandIdle
  /\ envVite \in EnvRaws
  /\ envCra \in EnvRaws
  /\ envRead = FALSE

\* The module is evaluated: FEED_THRESHOLD gets its value, once.
ReadEnv ==
  /\ ~envRead
  /\ envRead' = TRUE
  /\ feedThreshold' = FEED_THRESHOLD(envVite, envCra)
  /\ UNCHANGED <<envVite, envCra>>
  /\ UNCHANGED <<argA, argB, outA, outB, randVars>>
  /\ UNCHANGED <<targetAddress, connection, connError, booted, isMounted, pc,
                 cursor, reqBefore, sigs, i, timerDelay, ledger, feeds,
                 lastFeedAt, scale, simClicks, feedLog, maxBefore, logAtStart,
                 crashed, lastRpc, rounds, timers>>
  /\ UNCHANGED simVars

EnvNext == ReadEnv

EnvSpec == EnvInit /\ [][EnvNext]_vars

\* The network answers: a remote call in flight resolves or rejects, and a
\* pending timer fires (the event loop runs every due callback).
FairSpec ==
  /\ Spec
  /\ WF_vars(TimerFires)
  /\ WF_vars(ListingReturns \/ ListingThrows)
  /\ WF_vars(FetchReturns \/ FetchThrows)

\* ---------------------------------------------------------------- claims
NoDuplicates(log) == \A a, b \in DOMAIN log : a # b => log[a] # log[b]

\* C1: once a signature has been sent as the `before` cursor, no later round
\* counts a feed for a transaction as old as or older than it; no signature
\* is counted as a feed twice.
C1_NoReEmit ==
  /\ [](NoDuplicates(feedLog))
  /\ [][Len(feedLog') > Len(feedLog) => feedLog'[Len(feedLog')] > maxBefore]_vars

\* The lamports a delta must reach to meet the threshold n/d SOL.
ThresholdLamports == (feedThreshold[1] * LAMPORTS_PER_SOL) \div feedThreshold[2]

\* C3 as stated: every fetched transaction with the target among its account
\* keys raises the feed count by exactly 1 if and only if its balance delta
\* is at least the threshold.
C3_ThresholdBoundaryAlways ==
  [][(FetchReturns /\ ledger[sigs[i]].meta /\ ledger[sigs[i]].idx # -1) =>
       (feeds' = feeds + 1 <=> ledger[sigs[i]].diff >= ThresholdLamports)]_vars

\* C3 amended: a transaction fetched while the view is mounted, with the
\* target among its account keys, raises the feed count by exactly 1 when its
\* balance delta is at least the threshold and leaves it alone otherwise;
\* 500,000,000 lamports count at threshold 0.5, 400,000,000 do not. After the
\* unmount a fetched transaction never changes the feed count.
C3_ThresholdBoundary ==
  [][/\ (FetchReturns /\ isMounted /\ ledger[sigs[i]].meta /\ ledger[sigs[i]].idx # -1) =>
          (LET d == ledger[sigs[i]].diff IN
             /\ feeds' = (IF d >= ThresholdLamports THEN feeds + 1 ELSE feeds)
             /\ ((feedThreshold = <<1, 2>> /\ d = 500000000) => feeds' = feeds + 1)
             /\ ((feedThreshold = <<1, 2>> /\ d = 400000000) => feeds' = feeds)
             /\ scale' = computeScale(feeds'))
     /\ (FetchReturns /\ ~isMounted) => (feeds' = feeds)]_vars

\* C3 witness: at threshold 0.5 a round has counted a transfer of exactly
\* 500,000,000 lamports and passed over one of 400,000,000.
C3_Witness ==
  /\ feedThreshold = <<1, 2>>
  /\ isMounted /\ pc = "timer" /\ lastRpc = "ok"
  /\ \E a, b \in DOMAIN sigs :
       /\ ledger[sigs[a]] = Transfer(500000000)
       /\ ledger[sigs[b]] = Transfer(400000000)
  /\ Len(feedLog) = 1
  /\ ledger[feedLog[1]] = Transfer(500000000)
  /\ feeds = 1

\* C4: the cursor changes only when a listing returns signatures, and then
\* it becomes the newest signature of that listing (sigs[0] as returned, the
\* last of sigs after the reverse); fetches, skips, failures and empty
\* listings leave it alone.
C4_CursorIsNewestListed ==
  [][/\ (ListingReturns /\ sigs' # <<>>) =>
          (/\ cursor' = sigs'[Len(sigs')]
           /\ (\A k \in DOMAIN sigs' : sigs'[k] <= cursor'))
     /\ ~(ListingReturns /\ sigs' # <<>>) => (cursor' = cursor)]_vars

\* C4 witness: a round of two or more signatures has ended on a failed fetch
\* without any feed, and the cursor is the newest signature listed.
C4_Witness ==
  /\ pc = "timer" /\ lastRpc = "threw"
  /\ Len(sigs) >= 2
  /\ feedLog = <<>>
  /\ cursor = sigs[Len(sigs)]

\* C5: while mounted the loop never stops: a round in flight ends with the
\* 5000 ms timer pending, whether it completed or a remote call threw, and a
\* pending timer starts the next round.
C5_LoopReschedules ==
  /\ []((isMounted /\ pc # "off") => pc \in {"listing", "fetching", "timer"})
  /\ [](pc = "timer" <=> timerDelay = POLL_DELAY_MS)
  /\ []((isMounted /\ pc \in {"listing", "fetching"}) => <>(pc = "timer" \/ ~isMounted))
  /\ []((isMounted /\ pc = "timer") => <>(pc = "listing" \/ ~isMounted))

\* C5 witness: a round has ended on a failed remote call and the timer of
\* the next round is pending.
C5_Witness ==
  /\ isMounted /\ pc = "timer" /\ lastRpc = "threw"
  /\ timerDelay = POLL_DELAY_MS
  /\ maxBefore > 0

\* C6: after the cleanup no poll timer starts a round, the poller no longer
\* changes the feed count, and no grow or shrink tick changes the scale.
C6_NothingRunsAfterCleanup ==
  [][/\ ~isMounted => (~TimerFires /\ feeds' = feeds)
     /\ (~grow /\ ~shrink) => (simScale' = simScale /\ lastEvent' = lastEvent)]_vars

\* The part of C6 that holds: once clearInterval has run on both intervals
\* neither callback runs, and an unmounted poller never changes the feeds.
C6_IntervalsCleared ==
  [][/\ ~isMounted => feeds' = feeds
     /\ (~grow /\ ~shrink) => (simScale' = simScale /\ lastEvent' = lastEvent)]_vars

\* C7: with the placeholder (or an empty) target address, or without a
\* connection, the poller never leaves "off": no remote call, no timer, and
\* every feed is a Simulate Feed click; a throwing Connection constructor
\* ends in connError, not in a crash.
C7_PollerNoOp ==
  /\ (connection = Null \/ targetAddress \in {"", PLACEHOLDER}) =>
       /\ pc = "off"
       /\ timerDelay = 0
       /\ lastRpc = "none"
       /\ feedLog = <<>>
       /\ feeds = simClicks
  /\ ~crashed
  /\ (booted /\ connection = Null) => connError # Null

\* C7 witness: the connection is up, the address is the placeholder, the
\* ledger holds a transfer above the threshold, and the only feed is a click.
C7_Witness ==
  /\ targetAddress = PLACEHOLDER
  /\ connection # Null
  /\ \E k \in DOMAIN ledger : ledger[k] = Transfer(1000000000)
  /\ simClicks = 1 /\ feeds = 1
  /\ pc = "off"

\* The feeds of the current round's transactions before position k.
FeedsBefore(k) ==
  Cardinality({j \in 1..(k - 1) : IsFeed(ledger[sigs[j]], feedThreshold)})

\* C8 as stated: a round in which a remote call failed has left the poller's
\* feed count as it was when the round started.
C8_FailedRoundChangesNothing ==
  (pc \in {"timer", "stopped"} /\ lastRpc = "threw") => Len(feedLog) = logAtStart

\* C8 amended: the failing call itself changes neither the feed count nor
\* the scale and ends the round; the round keeps exactly the feeds of the
\* transactions fetched before the failing one (none when the listing failed).
C8_FailureKeepsEarlierFeeds ==
  /\ scale = computeScale(feeds)
  /\ feeds = simClicks + Len(feedLog)
  /\ (pc \in {"timer", "stopped"} /\ lastRpc = "threw") =>
       Len(feedLog) - logAtStart = FeedsBefore(i)

\* C8 witness: a round counted one feed and then failed on a later fetch.
C8_Witness ==
  /\ pc = "timer" /\ lastRpc = "threw"
  /\ i >= 2
  /\ Len(feedLog) = logAtStart + 1

\* C2: under any number and any order of grow and shrink ticks the scale
\* stays within [BASE_SCALE, MAX_SCALE], in both simulators.
C2_ScaleWithinBounds ==
  /\ BASE_SCALE(variant) <= simScale
  /\ simScale <= MAX_SCALE(variant)

\* C2 witness: the 2s/8s simulator has been clamped at its cap by a grow tick.
C2_Witness ==
  /\ variant = "2s8s"
  /\ lastEvent = "grow"
  /\ simScale = MAX_SCALE(variant)
  /\ GrowStep(variant, simScale) = simScale

\* C9: on schedule and while mounted the scale reaches MAX_SCALE, is back at
\* MAX_SCALE again and again, and once it has reached the cap it never
\* returns to BASE_SCALE.
C9_TrendsToMax ==
  /\ <>(simScale = MAX_SCALE(variant) \/ ~grow)
  /\ []<>(simScale = MAX_SCALE(variant) \/ ~grow)
  /\ [](simScale = MAX_SCALE(variant) => [](simScale > BASE_SCALE(variant)))

\* C9 witness: a shrink tick has just taken the scale below the cap it had
\* reached.
C9_Witness ==
  /\ grow
  /\ lastEvent = "shrink"
  /\ simScale = ShrinkStep(variant, MAX_SCALE(variant))
  /\ simScale < MAX_SCALE(variant)

\* C10: computeScale(0) is 1, and of two feed counts 0 <= a < b the larger
\* gets the strictly larger scale (no cap flattens the curve).
C10_ComputeScaleIncreasing ==
  outA # -1 =>
    /\ (argA = 0 => outA = ScaleUnit)
    /\ (argA < argB => outA < outB)
    /\ (argA = argB => outA = outB)

\* C10 witness: computeScale has been applied to the two largest feed counts.
C10_Witness ==
  /\ outA # -1
  /\ argA = MaxFeedArg - 1
  /\ argB = MaxFeedArg
  /\ outA < outB

\* A returned amount lies in [0.05, 2.5]: a finite number, not NaN.
InSolRange(v) ==
  /\ v.kind = "fin"
  /\ v.sgn = 1
  /\ (5 * ScaleUnit) \div 100 <= v.mag
  /\ v.mag <= (25 * ScaleUnit) \div 10

\* C11: for every pair of draws, a draw of 0 included (where Math.log is
\* -Infinity), randomSolAmount returns a number v with 0.05 <= v <= 2.5; with
\* the first draw 0 it returns one of the two limits.
C11_AmountInRange ==
  fed # NotCalled =>
    /\ InSolRange(fed)
    /\ (rnd1 = 0 => fed \in {MIN_SOL, MAX_SOL})

\* C11 witness: the first draw was 0 and the cosine of the second negative
\* (a third of a turn): the exponential is 0 and the amount the floor 0.05.
C11_Witness ==
  /\ rnd1 = 0
  /\ 3 * rnd2 = RandomGrid
  /\ fed = MIN_SOL

\* C12: FEED_THRESHOLD is a finite positive number: the value of the first
\* non-empty of VITE_FEED_THRESHOLD and REACT_APP_FEED_THRESHOLD when that
\* string is a finite number above 0, and the default 0.5 when both are
\* missing or empty or when the string is white space, non-numeric, zero,
\* negative or infinite.
C12_ThresholdParsedOrDefault ==
  envRead =>
    (LET raw == IF envVite # <<>> THEN envVite ELSE envCra IN
       /\ feedThreshold[1] > 0 /\ feedThreshold[2] > 0
       /\ (raw = <<"0", ".", "5">> => feedThreshold = <<1, 2>>)
       /\ (raw = <<"1">> => feedThreshold = <<1, 1>>)
       /\ (raw = <<"0", ".", "2", "5">> => feedThreshold = <<1, 4>>)
       /\ (raw = <<" ", "2", " ">> => feedThreshold = <<2, 1>>)
       /\ (raw = <<".", "7", "5">> => feedThreshold = <<3, 4>>)
       /\ (raw \in {<<>>, <<" ">>, <<"a", "b", "c">>, <<"0">>, <<"-", "1">>,
                    InfinityChars, <<"1", ".", "5", "x">>} =>
             feedThreshold = <<1, 2>>))

\* C12 witness: VITE_FEED_THRESHOLD is "0" and REACT_APP_FEED_THRESHOLD a
\* valid "0.25": the VITE_ value is the one parsed, and the result the default.
C12_Witness ==
  /\ envRead
  /\ envVite = <<"0">>
  /\ envCra = <<"0", ".", "2", "5">>
  /\ feedThreshold = <<1, 2>>

\* The transaction whose getTransaction is in flight meets the threshold.
FetchedIsFeed == IsFeed(ledger[sigs[i]], feedThreshold)

\* C13: the feed count is the number of Simulate Feed clicks plus the number
\* of threshold-meeting transactions the poller processed while mounted: a
\* click and a detection each add exactly 1 whatever the count was, no other
\* step changes the count, and lastFeedAt is set exactly when the count is
\* above 0.
C13_NoFeedLostOrDoubled ==
  /\ [](feeds = simClicks + Len(feedLog))
  /\ []((lastFeedAt # Null) <=> (feeds > 0))
  /\ [][/\ (SimulateFeed => (feeds' = feeds + 1 /\ simClicks' = simClicks + 1))
        /\ ((FetchReturns /\ isMounted /\ FetchedIsFeed) =>
              (feeds' = feeds + 1 /\ feedLog' = Append(feedLog, sigs[i])))
        /\ ((feeds' # feeds) =>
              (SimulateFeed \/ (FetchReturns /\ isMounted /\ FetchedIsFeed)))
        /\ (feeds' >= feeds)]_vars

\* C13 witness: a click and two detections of one batch have all been
\* counted, the click no later than the second detection.
C13_Witness ==
  /\ isMounted /\ pc = "timer"
  /\ simClicks = 1
  /\ Len(feedLog) = 2 /\ logAtStart = 0
  /\ feeds = 3
  /\ lastFeedAt # Null

\* C14: at most one poll round is in flight, at most one poll timer is
\* pending, and never both: a timer is pending only between the end of a
\* round and the start of the next, so one round at a time reads and writes
\* the cursor.
C14_RoundsNeverOverlap ==
  /\ rounds \in {0, 1}
  /\ timers \in {0, 1}
  /\ rounds + timers <= 1
  /\ (rounds = 1 <=> pc \in {"listing", "fetching"})
  /\ (timers = 1 <=> pc = "timer")

\* C14 witness: the timer of the first round has fired and the second round
\* is fetching its transactions, no timer pending.
C14_Witness ==
  /\ pc = "fetching"
  /\ maxBefore > 0
  /\ rounds = 1
  /\ timers = 0

\* The transaction whose getTransaction is in flight has no meta or message,
\* or its account keys do not hold the target.
FetchedIsSkipped == ~ledger[sigs[i]].meta \/ ledger[sigs[i]].idx = -1

\* C15: a batch is processed oldest first, one transaction after the other
\* from the oldest; a transaction without meta or message, or without the
\* target among its account keys, changes neither the feed count nor
\* lastFeedAt, and the round goes on to the next transaction of the batch (or
\* to its regular end after the last).
C15_OldestFirstWithSkips ==
  /\ [](\A a, b \in DOMAIN sigs : (a < b) => (sigs[a] < sigs[b]))
  /\ [][/\ ((ListingReturns /\ sigs' # <<>>) => (i' = 1))
        /\ ((FetchReturns /\ pc' = "fetching") => (i' = i + 1 /\ sigs' = sigs))
        /\ ((FetchReturns /\ FetchedIsSkipped) =>
              (/\ feeds' = feeds
               /\ lastFeedAt' = lastFeedAt
               /\ scale' = scale
               /\ ((i < Len(sigs)) => (pc' = "fetching" /\ i' = i + 1))
               /\ ((i = Len(sigs)) =>
                     (pc' = (IF isMounted THEN "timer" ELSE "stopped")))))]_vars

\* C15 witness: the older transaction of a batch of two had no meta and was
\* skipped, and the newer one was then counted as a feed.
C15_Witness ==
  /\ pc = "timer" /\ lastRpc = "ok"
  /\ Len(sigs) = 2
  /\ ledger[sigs[1]] = NoMeta
  /\ ledger[sigs[2]] = Transfer(1000000000)
  /\ feedLog = <<sigs[2]>>
  /\ feeds = 1

====
